---- MODULE Spec2Model ----
(***************************************************************************)
(* Model of roperator's finalize path, src/runner/reconcile/finalize.rs:   *)
(* handle_finalize, get_finalize_result and remove_finalizer.  Each task   *)
(* is one spawned handle_finalize future.  The controller loop keeps one   *)
(* reconciliation slot per parent (its index key) and runs at most one     *)
(* attempt per slot, so tasks are named by the parent they work on.  The   *)
(* cluster (finalizers and status of every parent), the metrics sink and   *)
(* the controller's event channel are the shared state the futures act on. *)
(***************************************************************************)
EXTENDS Integers, Sequences, FiniteSets, TLC

\* ---------------------------------------------------------------- bounds
MaxAttempts == 2       \* finalize attempts the controller dispatches in a run
MaxDelay == 1          \* largest retry delay a handler asks for, in timer ticks
NumStatuses == 1       \* distinct status values a handler can compute

\* ------------------------------------------------------------- universes
Resources == {"ns/a", "ns/b"}         \* object ids of the parents
Tasks == Resources                    \* one handle_finalize future at a time per parent
OtherFinalizer == "other-controller"  \* a finalizer owned by somebody else

\* Option<T>: None is the empty set, Some(x) the singleton.
None == {}
Some(x) == {x}
IsSome(o) == o /= {}
Unwrap(o) == CHOOSE x \in o : TRUE

Delays == 0..MaxDelay
StatusValues == 1..NumStatuses
OptDelay == {None} \cup {Some(d) : d \in Delays}
OptStatus == {None} \cup {Some(s) : s \in StatusValues}

\* RuntimeConfig: process-wide, read-only.
runtime_config == [parent_type |-> "MyParent", operator_name |-> "my-operator"]

\* The index key of the reconciliation slot the controller keeps for a parent.
IndexKeyOf(r) == <<"idx", r>>

VARIABLES
    finalizers,   \* cluster: parent id -> set of finalizer strings
    status,       \* cluster: parent id -> Option<status>
    metrics,      \* metrics sink: parent id -> parent_sync_error count
    channel,      \* messages delivered to the controller's event channel
    closed,       \* TRUE once the controller dropped the receiving end
    dispatched,   \* number of attempts dispatched so far
    sends,        \* number of sender.send calls made so far
    pc,           \* task -> position in handle_finalize
    bundle,       \* task -> the SyncHandler it was started with
    finalize_result,  \* task -> what the spawn_blocking task produced
    result,       \* task -> Result<Option<Duration>, UpdateError> of get_finalize_result
    update_result,\* task -> Result<Option<Duration>, ()> put in the message
    remaining,    \* task -> ticks left of delay_for
    trace         \* task -> effects of the current attempt, in order

vars == <<finalizers, status, metrics, channel, closed, dispatched, sends,
          pc, bundle, finalize_result, result, update_result, remaining, trace>>

cluster == <<finalizers, status>>
locals == <<finalize_result, result, update_result, remaining>>

\* ----------------------------------------------------------- value shapes
NoParent == [id |-> "", finalizers |-> {}, status |-> None]
NoBundle == [request |-> [parent |-> NoParent], parent_index_key |-> <<>>]
NoHandlerRun == [kind |-> "none", retry |-> None, status |-> None]
NoResult == [ok |-> FALSE, retry |-> None, err |-> "unset"]

Ok(retry) == [ok |-> TRUE, retry |-> retry, err |-> ""]
Err(e) == [ok |-> FALSE, retry |-> None, err |-> e]

InFlight(t) == pc[t] \notin {"idle", "done"}

IsEffect(e, x) == x = e
Count(s, e) == Len(SelectSeq(s, LAMBDA x : IsEffect(e, x)))
Pos(s, e) == LET at == {i \in 1..Len(s) : s[i] = e}
             IN  IF at = {} THEN 0 ELSE CHOOSE i \in at : \A j \in at : i <= j

Log(t, effects) == trace' = [trace EXCEPT ![t] = @ \o effects]

\* ------------------------------------------------- collaborators (helpers)
does_finalizer_exist(parent, rc) == rc.operator_name \in parent.finalizers

status_is_different(parent, new_status) == new_status /= parent.status

PatchRemoveFinalizer(parent, name) == [kind |-> "remove_finalizer", finalizer |-> name]

PatchSetStatus(new_status) == [kind |-> "set_status", status |-> new_status]

\* The finalizer set a parent has once the API server has applied the patch.
PatchedFinalizers(fs, patch) ==
    IF patch.kind = "remove_finalizer" THEN fs \ {patch.finalizer} ELSE fs

\* Client::patch_resource on the API server, when the call succeeds.
ApplyPatch(id, patch) ==
    IF patch.kind = "remove_finalizer"
    THEN /\ finalizers' = [finalizers EXCEPT ![id] = PatchedFinalizers(@, patch)]
         /\ UNCHANGED status
    ELSE /\ status' = [status EXCEPT ![id] = patch.status]
         /\ UNCHANGED finalizers

\* ------------------------------------------------------------------ Init
\* The parents as the controller finds them: "ns/a" is also held by another
\* controller and may or may not carry the operator's finalizer any more; "ns/b"
\* is being deleted and carries only the operator's finalizer.
InitialFinalizers ==
    {[r \in Resources |->
        IF r = "ns/a" THEN a ELSE {runtime_config.operator_name}] :
     a \in {{runtime_config.operator_name, OtherFinalizer}, {OtherFinalizer}}}

Init ==
    /\ finalizers \in InitialFinalizers
    /\ status = [r \in Resources |-> None]
    /\ metrics = [r \in Resources |-> 0]
    /\ channel = <<>>
    /\ closed = FALSE
    /\ dispatched = 0
    /\ sends = 0
    /\ pc = [t \in Tasks |-> "idle"]
    /\ bundle = [t \in Tasks |-> NoBundle]
    /\ finalize_result = [t \in Tasks |-> NoHandlerRun]
    /\ result = [t \in Tasks |-> NoResult]
    /\ update_result = [t \in Tasks |-> NoResult]
    /\ remaining = [t \in Tasks |-> 0]
    /\ trace = [t \in Tasks |-> <<>>]

\* --------------------------------------------------------------- actions
\* The controller loop spawns handle_finalize for parent t with a snapshot of
\* the parent.  It never runs two attempts for the same parent at once.
Dispatch(t) ==
    /\ ~InFlight(t)
    /\ dispatched < MaxAttempts
    /\ dispatched' = dispatched + 1
    /\ bundle' = [bundle EXCEPT ![t] =
                    [request |-> [parent |-> [id |-> t,
                                              finalizers |-> finalizers[t],
                                              status |-> status[t]]],
                     parent_index_key |-> IndexKeyOf(t)]]
    /\ pc' = [pc EXCEPT ![t] = "check"]
    /\ finalize_result' = [finalize_result EXCEPT ![t] = NoHandlerRun]
    /\ result' = [result EXCEPT ![t] = NoResult]
    /\ update_result' = [update_result EXCEPT ![t] = NoResult]
    /\ remaining' = [remaining EXCEPT ![t] = 0]
    /\ trace' = [trace EXCEPT ![t] = <<>>]
    /\ UNCHANGED <<cluster, metrics, channel, closed, sends>>

\* Mutant of CheckFinalizer: the already-finalized short-circuit is missing.
CheckFinalizerNoShortCircuit(t) ==
    /\ pc[t] = "check"
    /\ pc' = [pc EXCEPT ![t] = "blocking"]
    /\ Log(t, <<"check">>)
    /\ UNCHANGED <<cluster, metrics, channel, closed, dispatched, sends, bundle,
                   locals>>

\* get_finalize_result, lines 57-62: the finalizer check, then either the
\* short-circuit or the spawn of the blocking handler task.
CheckFinalizer(t) ==
    /\ pc[t] = "check"
    /\ IF ~does_finalizer_exist(bundle[t].request.parent, runtime_config)
       THEN /\ result' = [result EXCEPT ![t] = Ok(None)]
            /\ pc' = [pc EXCEPT ![t] = "match"]
       ELSE /\ pc' = [pc EXCEPT ![t] = "blocking"]
            /\ UNCHANGED result
    /\ Log(t, <<"check">>)
    /\ UNCHANGED <<cluster, metrics, channel, closed, dispatched, sends, bundle,
                   finalize_result, update_result, remaining>>

\* The closure given to spawn_blocking, lines 62-75: handler.finalize(&request)
\* returns a response, returns an error, or panics.
RunHandler(t) ==
    /\ pc[t] = "blocking"
    /\ \/ \E retry \in OptDelay, st \in OptStatus :
             finalize_result' = [finalize_result EXCEPT ![t] =
                                   [kind |-> "ok", retry |-> retry, status |-> st]]
       \/ finalize_result' = [finalize_result EXCEPT ![t] =
                                [kind |-> "err", retry |-> None, status |-> None]]
       \/ finalize_result' = [finalize_result EXCEPT ![t] =
                                [kind |-> "panic", retry |-> None, status |-> None]]
    /\ pc' = [pc EXCEPT ![t] = "join"]
    /\ Log(t, <<"handler">>)
    /\ UNCHANGED <<cluster, metrics, channel, closed, dispatched, sends, bundle,
                   result, update_result, remaining>>

\* Mutant of JoinHandler: a handler error is not propagated by `?`; the default
\* response (no retry) is interpreted instead.
JoinHandlerIgnoresError(t) ==
    /\ pc[t] = "join"
    /\ IF finalize_result[t].kind = "panic"
       THEN /\ result' = [result EXCEPT ![t] = Err("JoinError")]
            /\ pc' = [pc EXCEPT ![t] = "match"]
       ELSE /\ pc' = [pc EXCEPT ![t] = "interpret"]
            /\ UNCHANGED result
    /\ Log(t, <<"joined">>)
    /\ UNCHANGED <<cluster, metrics, channel, closed, dispatched, sends, bundle,
                   finalize_result, update_result, remaining>>

\* Mutant of JoinHandler: the JoinError is unwrapped, so a panicked handler takes
\* the attempt down with it before anything is reported.
JoinHandlerUnwrapsJoinError(t) ==
    /\ pc[t] = "join"
    /\ IF finalize_result[t].kind = "panic"
       THEN /\ pc' = [pc EXCEPT ![t] = "done"]
            /\ UNCHANGED result
       ELSE IF finalize_result[t].kind = "err"
       THEN /\ result' = [result EXCEPT ![t] = Err("HandlerError")]
            /\ pc' = [pc EXCEPT ![t] = "match"]
       ELSE /\ pc' = [pc EXCEPT ![t] = "interpret"]
            /\ UNCHANGED result
    /\ Log(t, <<"joined">>)
    /\ UNCHANGED <<cluster, metrics, channel, closed, dispatched, sends, bundle,
                   finalize_result, update_result, remaining>>

\* Lines 76-77: await the JoinHandle (`.await?`), then `finalize_result?`.
JoinHandler(t) ==
    /\ pc[t] = "join"
    /\ IF finalize_result[t].kind = "panic"
       THEN /\ result' = [result EXCEPT ![t] = Err("JoinError")]
            /\ pc' = [pc EXCEPT ![t] = "match"]
       ELSE IF finalize_result[t].kind = "err"
       THEN /\ result' = [result EXCEPT ![t] = Err("HandlerError")]
            /\ pc' = [pc EXCEPT ![t] = "match"]
       ELSE /\ pc' = [pc EXCEPT ![t] = "interpret"]
            /\ UNCHANGED result
    /\ Log(t, <<"joined">>)
    /\ UNCHANGED <<cluster, metrics, channel, closed, dispatched, sends, bundle,
                   finalize_result, update_result, remaining>>

\* Line 88: tokio::time::delay_for(delay) starts.
StartDelay(t, before) ==
    /\ remaining' = [remaining EXCEPT ![t] = Unwrap(finalize_result[t].retry)]
    /\ pc' = [pc EXCEPT ![t] = "delay"]
    /\ Log(t, before \o <<"delay_start">>)
    /\ UNCHANGED result

\* update_status_if_different, called at line 87: sends a status patch only when
\* the handler's status differs from the parent's current one.
update_status_if_different(t) ==
    IF status_is_different(bundle[t].request.parent, finalize_result[t].status)
    THEN /\ pc' = [pc EXCEPT ![t] = "status_patch"]
         /\ Log(t, <<"patch_status">>)
         /\ UNCHANGED <<remaining, result>>
    ELSE StartDelay(t, <<>>)

\* Mutant of remove_finalizer: the patch future is built but never awaited, so
\* no call reaches the API server and the function returns Ok(()).
remove_finalizer_NotAwaited(t) ==
    /\ result' = [result EXCEPT ![t] = Ok(finalize_result[t].retry)]
    /\ pc' = [pc EXCEPT ![t] = "match"]
    /\ UNCHANGED <<remaining, trace>>

\* remove_finalizer, lines 100-108: builds the patch and calls patch_resource.
remove_finalizer(t) ==
    /\ pc' = [pc EXCEPT ![t] = "remove_patch"]
    /\ Log(t, <<"patch_remove">>)
    /\ UNCHANGED <<remaining, result>>

\* Mutant of Interpret: the finalizer is removed whatever the handler's retry.
InterpretAlwaysRemoves(t) ==
    /\ pc[t] = "interpret"
    /\ remove_finalizer(t)
    /\ UNCHANGED <<cluster, metrics, channel, closed, dispatched, sends, bundle,
                   finalize_result, update_result>>

\* Mutant of Interpret: the status is patched before the branch on retry, so
\* also on the terminal path.
InterpretStatusFirst(t) ==
    /\ pc[t] = "interpret"
    /\ IF status_is_different(bundle[t].request.parent, finalize_result[t].status)
       THEN /\ pc' = [pc EXCEPT ![t] = "status_patch"]
            /\ Log(t, <<"patch_status">>)
            /\ UNCHANGED <<remaining, result>>
       ELSE IF IsSome(finalize_result[t].retry)
       THEN StartDelay(t, <<>>)
       ELSE remove_finalizer(t)
    /\ UNCHANGED <<cluster, metrics, channel, closed, dispatched, sends, bundle,
                   finalize_result, update_result>>

\* Lines 77-95: destructure the response and take the retry or the terminal branch.
Interpret(t) ==
    /\ pc[t] = "interpret"
    /\ IF IsSome(finalize_result[t].retry)
       THEN update_status_if_different(t)
       ELSE remove_finalizer(t)
    /\ UNCHANGED <<cluster, metrics, channel, closed, dispatched, sends, bundle,
                   finalize_result, update_result>>

\* Mutant of StatusPatchReturn: after the status patch the code falls through to
\* the finalizer removal instead of the delay.
StatusPatchReturnThenRemoves(t) ==
    /\ pc[t] = "status_patch"
    /\ ApplyPatch(bundle[t].request.parent.id, PatchSetStatus(finalize_result[t].status))
    /\ pc' = [pc EXCEPT ![t] = "remove_patch"]
    /\ Log(t, <<"patch_status_ok", "patch_remove">>)
    /\ UNCHANGED <<metrics, channel, closed, dispatched, sends, bundle, locals>>

\* Mutant of StatusPatchReturn: the result of update_status_if_different is
\* dropped, so a failed status patch is followed by the delay all the same.
StatusPatchReturnIgnoresErr(t) ==
    /\ pc[t] = "status_patch"
    /\ \/ /\ ApplyPatch(bundle[t].request.parent.id,
                        PatchSetStatus(finalize_result[t].status))
          /\ StartDelay(t, <<"patch_status_ok">>)
       \/ /\ StartDelay(t, <<"patch_status_err">>)
          /\ UNCHANGED cluster
    /\ UNCHANGED <<metrics, channel, closed, dispatched, sends, bundle,
                   finalize_result, update_result>>

\* Line 87, the status patch call returns: Ok goes on to the delay, Err leaves
\* get_finalize_result through `?`.
StatusPatchReturn(t) ==
    /\ pc[t] = "status_patch"
    /\ \/ /\ ApplyPatch(bundle[t].request.parent.id,
                        PatchSetStatus(finalize_result[t].status))
          /\ StartDelay(t, <<"patch_status_ok">>)
       \/ /\ result' = [result EXCEPT ![t] = Err("ClientError")]
          /\ pc' = [pc EXCEPT ![t] = "match"]
          /\ Log(t, <<"patch_status_err">>)
          /\ UNCHANGED <<cluster, remaining>>
    /\ UNCHANGED <<metrics, channel, closed, dispatched, sends, bundle,
                   finalize_result, update_result>>

\* Line 88: the timer of delay_for advances.
DelayTick(t) ==
    /\ pc[t] = "delay"
    /\ remaining[t] > 0
    /\ remaining' = [remaining EXCEPT ![t] = @ - 1]
    /\ Log(t, <<"tick">>)
    /\ UNCHANGED <<cluster, metrics, channel, closed, dispatched, sends, pc, bundle,
                   finalize_result, result, update_result>>

\* Mutant of DelayDone: the retry path returns Ok(None) instead of Ok(retry).
DelayDoneReturnsNone(t) ==
    /\ pc[t] = "delay"
    /\ remaining[t] = 0
    /\ result' = [result EXCEPT ![t] = Ok(None)]
    /\ pc' = [pc EXCEPT ![t] = "match"]
    /\ Log(t, <<"delay_end">>)
    /\ UNCHANGED <<cluster, metrics, channel, closed, dispatched, sends, bundle,
                   finalize_result, update_result, remaining>>

\* Mutant of DelayDone: get_finalize_result returns without awaiting the delay.
DelayDoneNotAwaited(t) ==
    /\ pc[t] = "delay"
    /\ result' = [result EXCEPT ![t] = Ok(finalize_result[t].retry)]
    /\ pc' = [pc EXCEPT ![t] = "match"]
    /\ Log(t, <<"delay_end">>)
    /\ UNCHANGED <<cluster, metrics, channel, closed, dispatched, sends, bundle,
                   finalize_result, update_result, remaining>>

\* Mutant of DelayDone: after the delay the attempt calls the handler again
\* itself instead of returning Ok(retry) to the controller loop.
DelayDoneRetriesHandler(t) ==
    /\ pc[t] = "delay"
    /\ remaining[t] = 0
    /\ pc' = [pc EXCEPT ![t] = "blocking"]
    /\ Log(t, <<"delay_end">>)
    /\ UNCHANGED <<cluster, metrics, channel, closed, dispatched, sends, bundle,
                   finalize_result, result, update_result, remaining>>

\* Lines 88 and 97: the delay has elapsed, get_finalize_result returns Ok(retry).
DelayDone(t) ==
    /\ pc[t] = "delay"
    /\ remaining[t] = 0
    /\ result' = [result EXCEPT ![t] = Ok(finalize_result[t].retry)]
    /\ pc' = [pc EXCEPT ![t] = "match"]
    /\ Log(t, <<"delay_end">>)
    /\ UNCHANGED <<cluster, metrics, channel, closed, dispatched, sends, bundle,
                   finalize_result, update_result, remaining>>

\* Mutant of RemovePatchReturn: the result of patch_resource is dropped, so a
\* failed removal still returns Ok(retry).
RemovePatchReturnSwallowsErr(t) ==
    /\ pc[t] = "remove_patch"
    /\ \/ /\ ApplyPatch(bundle[t].request.parent.id,
                        PatchRemoveFinalizer(bundle[t].request.parent,
                                             runtime_config.operator_name))
          /\ Log(t, <<"patch_remove_ok">>)
       \/ /\ Log(t, <<"patch_remove_err">>)
          /\ UNCHANGED cluster
    /\ result' = [result EXCEPT ![t] = Ok(finalize_result[t].retry)]
    /\ pc' = [pc EXCEPT ![t] = "match"]
    /\ UNCHANGED <<metrics, channel, closed, dispatched, sends, bundle,
                   finalize_result, update_result, remaining>>

\* Mutant of RemovePatchReturn: line 107 hands Patch::remove_finalizer the wrong
\* string of the runtime config, the parent type instead of the operator name.
RemovePatchReturnWrongName(t) ==
    /\ pc[t] = "remove_patch"
    /\ \/ /\ ApplyPatch(bundle[t].request.parent.id,
                        PatchRemoveFinalizer(bundle[t].request.parent,
                                             runtime_config.parent_type))
          /\ result' = [result EXCEPT ![t] = Ok(finalize_result[t].retry)]
          /\ Log(t, <<"patch_remove_ok">>)
       \/ /\ result' = [result EXCEPT ![t] = Err("ClientError")]
          /\ Log(t, <<"patch_remove_err">>)
          /\ UNCHANGED cluster
    /\ pc' = [pc EXCEPT ![t] = "match"]
    /\ UNCHANGED <<metrics, channel, closed, dispatched, sends, bundle,
                   finalize_result, update_result, remaining>>

\* Mutant of RemovePatchReturn: a failed removal is sent again within the attempt.
RemovePatchReturnRetries(t) ==
    /\ pc[t] = "remove_patch"
    /\ \/ /\ ApplyPatch(bundle[t].request.parent.id,
                        PatchRemoveFinalizer(bundle[t].request.parent,
                                             runtime_config.operator_name))
          /\ result' = [result EXCEPT ![t] = Ok(finalize_result[t].retry)]
          /\ pc' = [pc EXCEPT ![t] = "match"]
          /\ Log(t, <<"patch_remove_ok">>)
       \/ /\ Count(trace[t], "patch_remove") < 2
          /\ Log(t, <<"patch_remove_err", "patch_remove">>)
          /\ UNCHANGED <<cluster, result, pc>>
       \/ /\ Count(trace[t], "patch_remove") >= 2
          /\ result' = [result EXCEPT ![t] = Err("ClientError")]
          /\ pc' = [pc EXCEPT ![t] = "match"]
          /\ Log(t, <<"patch_remove_err">>)
          /\ UNCHANGED cluster
    /\ UNCHANGED <<metrics, channel, closed, dispatched, sends, bundle,
                   finalize_result, update_result, remaining>>

\* Lines 94, 108-109 and 97: the finalizer-removal patch call returns.
RemovePatchReturn(t) ==
    /\ pc[t] = "remove_patch"
    /\ \/ /\ ApplyPatch(bundle[t].request.parent.id,
                        PatchRemoveFinalizer(bundle[t].request.parent,
                                             runtime_config.operator_name))
          /\ result' = [result EXCEPT ![t] = Ok(finalize_result[t].retry)]
          /\ Log(t, <<"patch_remove_ok">>)
       \/ /\ result' = [result EXCEPT ![t] = Err("ClientError")]
          /\ Log(t, <<"patch_remove_err">>)
          /\ UNCHANGED cluster
    /\ pc' = [pc EXCEPT ![t] = "match"]
    /\ UNCHANGED <<metrics, channel, closed, dispatched, sends, bundle,
                   finalize_result, update_result, remaining>>

\* Mutant of MatchResult: the error arm returns early, before the message is built.
MatchResultReturnsOnErr(t) ==
    /\ pc[t] = "match"
    /\ IF result[t].ok
       THEN /\ update_result' = [update_result EXCEPT ![t] = Ok(result[t].retry)]
            /\ pc' = [pc EXCEPT ![t] = "send"]
            /\ UNCHANGED <<metrics, trace>>
       ELSE /\ metrics' = [metrics EXCEPT ![bundle[t].request.parent.id] = @ + 1]
            /\ update_result' = [update_result EXCEPT ![t] = Err("()")]
            /\ pc' = [pc EXCEPT ![t] = "done"]
            /\ Log(t, <<"metric">>)
    /\ UNCHANGED <<cluster, channel, closed, dispatched, sends, bundle,
                   finalize_result, result, remaining>>

\* Mutant of MatchResult: the counter is incremented on both arms.
MatchResultCountsAlways(t) ==
    /\ pc[t] = "match"
    /\ metrics' = [metrics EXCEPT ![bundle[t].request.parent.id] = @ + 1]
    /\ update_result' = [update_result EXCEPT ![t] =
                            IF result[t].ok THEN Ok(result[t].retry) ELSE Err("()")]
    /\ Log(t, <<"metric">>)
    /\ pc' = [pc EXCEPT ![t] = "send"]
    /\ UNCHANGED <<cluster, channel, closed, dispatched, sends, bundle,
                   finalize_result, result, remaining>>

\* Mutant of MatchResult: the result is kept in a slot shared by all attempts, so
\* an attempt may report what another one left there.
MatchResultSharedSlot(t) ==
    /\ pc[t] = "match"
    /\ \E u \in Tasks :
          /\ result[u] /= NoResult
          /\ IF result[u].ok
             THEN /\ update_result' = [update_result EXCEPT ![t] = Ok(result[u].retry)]
                  /\ UNCHANGED <<metrics, trace>>
             ELSE /\ metrics' = [metrics EXCEPT ![bundle[t].request.parent.id] = @ + 1]
                  /\ update_result' = [update_result EXCEPT ![t] = Err("()")]
                  /\ Log(t, <<"metric">>)
    /\ pc' = [pc EXCEPT ![t] = "send"]
    /\ UNCHANGED <<cluster, channel, closed, dispatched, sends, bundle,
                   finalize_result, result, remaining>>

\* handle_finalize, lines 26-39: map the result, count the error.
MatchResult(t) ==
    /\ pc[t] = "match"
    /\ IF result[t].ok
       THEN /\ update_result' = [update_result EXCEPT ![t] = Ok(result[t].retry)]
            /\ UNCHANGED <<metrics, trace>>
       ELSE /\ metrics' = [metrics EXCEPT ![bundle[t].request.parent.id] = @ + 1]
            /\ update_result' = [update_result EXCEPT ![t] = Err("()")]
            /\ Log(t, <<"metric">>)
    /\ pc' = [pc EXCEPT ![t] = "send"]
    /\ UNCHANGED <<cluster, channel, closed, dispatched, sends, bundle,
                   finalize_result, result, remaining>>

\* Mutant of Message: the failure path builds its message without the index key.
MessageNoKeyOnErr(t) ==
    [event_type |-> [name |-> "UpdateOperationComplete", result |-> update_result[t]],
     resource_type |-> runtime_config.parent_type,
     resource_id |-> bundle[t].request.parent.id,
     index_key |-> IF update_result[t].ok THEN Some(bundle[t].parent_index_key)
                   ELSE None]

\* Lines 40-47: the ResourceMessage of this attempt.
Message(t) ==
    [event_type |-> [name |-> "UpdateOperationComplete", result |-> update_result[t]],
     resource_type |-> runtime_config.parent_type,
     resource_id |-> bundle[t].request.parent.id,
     index_key |-> Some(bundle[t].parent_index_key)]

\* Mutant of SendMessage: the send result is unwrapped, so a closed channel
\* panics the task instead of letting it end.
SendMessageUnwraps(t) ==
    /\ pc[t] = "send"
    /\ ~closed
    /\ channel' = Append(channel, Message(t))
    /\ sends' = sends + 1
    /\ pc' = [pc EXCEPT ![t] = "done"]
    /\ Log(t, <<"send">>)
    /\ UNCHANGED <<cluster, metrics, closed, dispatched, bundle, locals>>

\* Line 48: `let _ = sender.send(message).await;` a closed channel is ignored.
SendMessage(t) ==
    /\ pc[t] = "send"
    /\ channel' = IF closed THEN channel ELSE Append(channel, Message(t))
    /\ sends' = sends + 1
    /\ pc' = [pc EXCEPT ![t] = "done"]
    /\ Log(t, <<"send">>)
    /\ UNCHANGED <<cluster, metrics, closed, dispatched, bundle, locals>>

\* The controller shuts down and drops the receiving end of the channel.
CloseChannel ==
    /\ ~closed
    /\ closed' = TRUE
    /\ UNCHANGED <<cluster, metrics, channel, dispatched, sends, pc, bundle, locals, trace>>

\* One step of the handle_finalize future of task t.
TaskStep(t) ==
    \/ CheckFinalizer(t)
    \/ RunHandler(t)
    \/ JoinHandler(t)
    \/ Interpret(t)
    \/ StatusPatchReturn(t)
    \/ DelayTick(t)
    \/ DelayDone(t)
    \/ RemovePatchReturn(t)
    \/ MatchResult(t)
    \/ SendMessage(t)

Next ==
    \/ \E t \in Tasks : Dispatch(t)
    \/ \E t \in Tasks : CheckFinalizer(t)
    \/ \E t \in Tasks : RunHandler(t)
    \/ \E t \in Tasks : JoinHandler(t)
    \/ \E t \in Tasks : Interpret(t)
    \/ \E t \in Tasks : StatusPatchReturn(t)
    \/ \E t \in Tasks : DelayTick(t)
    \/ \E t \in Tasks : DelayDone(t)
    \/ \E t \in Tasks : RemovePatchReturn(t)
    \/ \E t \in Tasks : MatchResult(t)
    \/ \E t \in Tasks : SendMessage(t)
    \/ CloseChannel

Spec == Init /\ [][Next]_vars

\* The tokio runtime polls every future that can make progress: the handler call
\* returns or fails to join, every patch call returns and the timer fires.
FairSpec == Spec /\ \A t \in Tasks : WF_vars(TaskStep(t))

\* ------------------------------------------- observations of one attempt
Parent(t) == bundle[t].request.parent
Started(t) == pc[t] /= "idle"
Finished(t) == pc[t] = "done"
HasFinalizer(t) == does_finalizer_exist(Parent(t), runtime_config)
HandlerCalls(t) == Count(trace[t], "handler")
HandlerOk(t) == finalize_result[t].kind = "ok"
Retry(t) == finalize_result[t].retry
StatusPatches(t) == Count(trace[t], "patch_status")
RemovePatches(t) == Count(trace[t], "patch_remove")
PatchCalls(t) == StatusPatches(t) + RemovePatches(t)
DelayStarts(t) == Count(trace[t], "delay_start")
Ticks(t) == Count(trace[t], "tick")
MetricIncs(t) == Count(trace[t], "metric")
SendsOf(t) == Count(trace[t], "send")
Reported(t) == pc[t] \in {"send", "done"}
StatusDiffers(t) == status_is_different(Parent(t), finalize_result[t].status)
Delivered(t) == \E i \in 1..Len(channel) : channel[i] = Message(t)
ClusterUntouched(t) ==
    /\ finalizers[Parent(t).id] = Parent(t).finalizers
    /\ status[Parent(t).id] = Parent(t).status

\* ------------------------------------------------------------------- C1
\* C1: every attempt makes exactly one send of its completion event: none before
\* it finishes, one once it has finished, whatever the outcome; so the sends made
\* so far are as many as the attempts that have finished.
C1_ExactlyOneSend ==
    /\ \A t \in Tasks : SendsOf(t) = (IF Finished(t) THEN 1 ELSE 0)
    /\ sends = dispatched - Cardinality({t \in Tasks : InFlight(t)})
    /\ ~closed => Len(channel) = sends

C1_Witness ==
    \E t, u \in Tasks :
        /\ Finished(t) /\ update_result[t].ok
        /\ Finished(u) /\ ~update_result[u].ok
        /\ sends = 2

\* ------------------------------------------------------------------- C2
\* C2: an attempt for a parent that lacks the operator's finalizer never calls
\* the handler, issues no patch, waits no delay and reports Ok(None).
C2_ShortCircuit ==
    \A t \in Tasks :
        (Started(t) /\ ~HasFinalizer(t)) =>
            /\ HandlerCalls(t) = 0
            /\ PatchCalls(t) = 0
            /\ DelayStarts(t) = 0 /\ Ticks(t) = 0
            /\ pc[t] \in {"check", "match", "send", "done"}
            /\ Reported(t) => update_result[t] = Ok(None)
            /\ ClusterUntouched(t)

C2_Witness ==
    \E t \in Tasks :
        /\ Finished(t) /\ ~HasFinalizer(t)
        /\ update_result[t] = Ok(None)
        /\ Delivered(t)

\* ------------------------------------------------------------------- C3
\* C3 as stated: every attempt whose handler returned a response issues exactly
\* one of the two patches, and the short-circuit issues none.
C3_ExactlyOnePatch ==
    \A t \in Tasks :
        Finished(t) =>
            /\ HandlerOk(t) => PatchCalls(t) = 1
            /\ ~HasFinalizer(t) => PatchCalls(t) = 0

\* C3 amended: an attempt issues at most one patch, never both kinds, and none
\* when the short-circuit applies; a handler response leads to exactly one patch
\* unless it is a retry whose status equals the parent's current status.
C3_AtMostOnePatch ==
    \A t \in Tasks :
        LET statusPatches == StatusPatches(t)
            removePatches == RemovePatches(t)
            patchCalls == statusPatches + removePatches
        IN  /\ patchCalls <= 1
            /\ ~(statusPatches > 0 /\ removePatches > 0)
            /\ (Started(t) /\ ~HasFinalizer(t)) => patchCalls = 0
            /\ (Finished(t) /\ HandlerOk(t)) =>
                   patchCalls = (IF IsSome(Retry(t)) /\ ~StatusDiffers(t) THEN 0 ELSE 1)

C3_Witness ==
    \E t \in Tasks :
        /\ Finished(t) /\ HandlerOk(t)
        /\ IsSome(Retry(t)) /\ ~StatusDiffers(t)
        /\ PatchCalls(t) = 0

\* ------------------------------------------------------------------- C4
\* C4 as stated: with the finalizer present and retry = None, the attempt issues
\* the removal patch, the finalizer is absent afterwards and the event is Ok(None).
C4_TerminalAlwaysRemoved ==
    \A t \in Tasks :
        (Finished(t) /\ HasFinalizer(t) /\ HandlerOk(t) /\ Retry(t) = None) =>
            /\ RemovePatches(t) = 1
            /\ runtime_config.operator_name \notin finalizers[Parent(t).id]
            /\ update_result[t] = Ok(None)

\* C4 amended: with the finalizer present and retry = None, the attempt issues
\* exactly one removal patch (never neither patch); if that patch call succeeds
\* the finalizer is absent afterwards and the event is Ok(None).
C4_TerminalWhenPatchSucceeds ==
    \A t \in Tasks :
        (Finished(t) /\ HasFinalizer(t) /\ HandlerOk(t) /\ Retry(t) = None) =>
            /\ RemovePatches(t) = 1
            /\ Count(trace[t], "patch_remove_ok") = 1 =>
                   /\ runtime_config.operator_name \notin finalizers[Parent(t).id]
                   /\ update_result[t] = Ok(None)

C4_Witness ==
    \E t \in Tasks :
        /\ Finished(t) /\ HasFinalizer(t) /\ HandlerOk(t) /\ Retry(t) = None
        /\ Count(trace[t], "patch_remove_ok") = 1
        /\ finalizers[Parent(t).id] = {OtherFinalizer}
        /\ update_result[t] = Ok(None)

\* ------------------------------------------------------------------- C5
\* C5 as stated: with retry = Some(d) no removal patch is issued, the finalizer
\* is still present afterwards and the event is Ok(Some(d)).
C5_RetryAlwaysReported ==
    \A t \in Tasks :
        (Finished(t) /\ HandlerOk(t) /\ IsSome(Retry(t))) =>
            /\ RemovePatches(t) = 0
            /\ finalizers[Parent(t).id] = Parent(t).finalizers
            /\ update_result[t] = Ok(Retry(t))

\* C5 amended: with retry = Some(d) no removal patch is issued and the finalizer
\* is still present afterwards; the event is Ok(Some(d)) unless the status patch
\* call failed, and then it is Err.
C5_RetryReportedUnlessPatchFails ==
    \A t \in Tasks :
        (Finished(t) /\ HandlerOk(t) /\ IsSome(Retry(t))) =>
            /\ RemovePatches(t) = 0
            /\ finalizers[Parent(t).id] = Parent(t).finalizers
            /\ runtime_config.operator_name \in finalizers[Parent(t).id]
            /\ IF Count(trace[t], "patch_status_err") = 0
               THEN update_result[t] = Ok(Retry(t))
               ELSE ~update_result[t].ok

C5_Witness ==
    \E t \in Tasks :
        /\ Finished(t) /\ HandlerOk(t) /\ Retry(t) = Some(MaxDelay)
        /\ Count(trace[t], "patch_status_ok") = 1
        /\ update_result[t] = Ok(Some(MaxDelay))
        /\ runtime_config.operator_name \in finalizers[Parent(t).id]

\* ------------------------------------------------------------------- C6
\* C6: after a handler error the attempt goes straight to reporting: no patch,
\* no delay, the parent's finalizers and status as they were, one error event;
\* the task ends normally, so later attempts run.
C6_HandlerErrorIsolated ==
    \A t \in Tasks :
        finalize_result[t].kind = "err" =>
            /\ pc[t] \in {"join", "match", "send", "done"}
            /\ PatchCalls(t) = 0
            /\ DelayStarts(t) = 0 /\ Ticks(t) = 0
            /\ ClusterUntouched(t)
            /\ pc[t] \in {"match", "send", "done"} => result[t] = Err("HandlerError")
            /\ Reported(t) => ~update_result[t].ok
            /\ Finished(t) => SendsOf(t) = 1

\* A second attempt on the same parent has finished after a failed first one.
C6_Witness ==
    \E t \in Tasks :
        /\ Finished(t) /\ finalize_result[t].kind = "err"
        /\ Len(channel) = 2
        /\ channel[1].resource_id = Parent(t).id
        /\ ~channel[1].event_type.result.ok
        /\ channel[2] = Message(t)
        /\ metrics[Parent(t).id] = 2

\* ------------------------------------------------------------------- C7
\* C7: an attempt has issued a finalizer-removal patch only if its parent carried
\* the operator's finalizer and its handler returned a response with retry = None.
C7_RemovalOnlyOnTerminal ==
    \A t \in Tasks :
        RemovePatches(t) > 0 =>
            /\ HasFinalizer(t)
            /\ HandlerCalls(t) = 1
            /\ HandlerOk(t)
            /\ Retry(t) = None

C7_Witness ==
    \E t \in Tasks : Finished(t) /\ RemovePatches(t) = 1 /\ Retry(t) = None

\* ------------------------------------------------------------------- C8
\* C8: no attempt issues both a status patch and a removal patch, and on the
\* retry = None path no status patch is issued, whatever status the handler
\* returned; the parent's status is left as it was.
C8_StatusAndRemovalExclusive ==
    \A t \in Tasks :
        /\ ~(StatusPatches(t) > 0 /\ RemovePatches(t) > 0)
        /\ (HandlerOk(t) /\ Retry(t) = None) =>
               /\ StatusPatches(t) = 0
               /\ status[Parent(t).id] = Parent(t).status

C8_Witness ==
    \E t \in Tasks :
        /\ Finished(t) /\ HandlerOk(t) /\ Retry(t) = None
        /\ StatusDiffers(t)
        /\ StatusPatches(t) = 0 /\ RemovePatches(t) = 1

\* ------------------------------------------------------------------- C9
ErrMessages(r) ==
    Cardinality({i \in 1..Len(channel) :
                    channel[i].resource_id = r /\ ~channel[i].event_type.result.ok})
ErrPending(r) ==
    Cardinality({t \in Tasks :
                    pc[t] = "send" /\ Parent(t).id = r /\ ~update_result[t].ok})

\* C9: parent_sync_error is incremented exactly once in an attempt that reports
\* Err and never in one that reports Ok, and always before the event is sent.
C9_MetricOnFailureOnly ==
    /\ \A t \in Tasks :
           /\ MetricIncs(t) = (IF Reported(t) /\ ~update_result[t].ok THEN 1 ELSE 0)
           /\ (Finished(t) /\ MetricIncs(t) = 1) =>
                  Pos(trace[t], "metric") < Pos(trace[t], "send")
    /\ ~closed => \A r \in Resources : metrics[r] = ErrMessages(r) + ErrPending(r)

C9_Witness ==
    \E t, u \in Tasks :
        /\ Finished(t) /\ ~update_result[t].ok /\ MetricIncs(t) = 1
        /\ metrics[Parent(t).id] = 1
        /\ Finished(u) /\ update_result[u].ok /\ MetricIncs(u) = 0
        /\ metrics[Parent(u).id] = 0

\* ------------------------------------------------------------------ C10
\* C10: on the retry path a status patch is issued exactly when the handler's
\* status differs from the parent's current one; when they are equal the attempt
\* makes no API call, still waits the whole delay and reports Ok(Some(d)).
C10_StatusNoOpAvoided ==
    \A t \in Tasks :
        (HandlerOk(t) /\ IsSome(Retry(t)) /\ pc[t] \notin {"join", "interpret"}) =>
            /\ StatusPatches(t) = (IF StatusDiffers(t) THEN 1 ELSE 0)
            /\ ~StatusDiffers(t) =>
                   /\ PatchCalls(t) = 0
                   /\ ClusterUntouched(t)
                   /\ DelayStarts(t) = 1
                   /\ Reported(t) =>
                          /\ Ticks(t) = Unwrap(Retry(t))
                          /\ update_result[t] = Ok(Retry(t))

C10_Witness ==
    \E t \in Tasks :
        /\ Finished(t) /\ HandlerOk(t) /\ Retry(t) = Some(MaxDelay)
        /\ finalize_result[t].status /= None /\ ~StatusDiffers(t)
        /\ PatchCalls(t) = 0 /\ Ticks(t) = MaxDelay
        /\ update_result[t] = Ok(Some(MaxDelay))

\* ------------------------------------------------------------------ C11
StatusPatchFailed(t) == Count(trace[t], "patch_status_err") = 1
RemovePatchFailed(t) == Count(trace[t], "patch_remove_err") = 1
PatchFailed(t) == StatusPatchFailed(t) \/ RemovePatchFailed(t)

\* The attempt of a failed patch call is on the failure path.
FailedPatchIsError ==
    \A t \in Tasks :
        PatchFailed(t) =>
            /\ pc[t] \in {"match", "send", "done"}
            /\ result[t] = Err("ClientError")
            /\ Reported(t) => (~update_result[t].ok /\ MetricIncs(t) = 1)
            /\ ClusterUntouched(t)
            /\ RemovePatchFailed(t) =>
                   runtime_config.operator_name \in finalizers[Parent(t).id]

\* The next attempt for a parent whose removal patch failed is handed a parent
\* that still carries the finalizer, so it passes the check and reaches the handler.
NextAttemptAfterFailedRemoval ==
    \A t \in Tasks :
        (Finished(t) /\ RemovePatchFailed(t) /\ pc'[t] = "check") =>
            /\ bundle'[t].request.parent.id = Parent(t).id
            /\ does_finalizer_exist(bundle'[t].request.parent, runtime_config)

\* C11: a failed patch call (status or finalizer removal) makes the attempt report
\* Err and count the error, with the cluster as it was; after a failed removal the
\* finalizer is still present, so the next attempt is handed it and runs again.
C11_FailedPatchReported ==
    []FailedPatchIsError /\ [][NextAttemptAfterFailedRemoval]_vars

C11_Witness ==
    \E t \in Tasks :
        /\ Finished(t) /\ RemovePatchFailed(t)
        /\ ~update_result[t].ok /\ Delivered(t)
        /\ metrics[Parent(t).id] = 1
        /\ runtime_config.operator_name \in finalizers[Parent(t).id]

\* ------------------------------------------------------------------ C12
\* C12: when the blocking handler task cannot be joined (the handler panicked),
\* the attempt is reported like a handler error: no patch, no delay, one
\* increment of the error counter and one completion event carrying Err.
C12_JoinFailureLikeHandlerError ==
    \A t \in Tasks :
        finalize_result[t].kind = "panic" =>
            /\ pc[t] \in {"join", "match", "send", "done"}
            /\ PatchCalls(t) = 0
            /\ DelayStarts(t) = 0 /\ Ticks(t) = 0
            /\ ClusterUntouched(t)
            /\ pc[t] \in {"match", "send", "done"} => result[t] = Err("JoinError")
            /\ Reported(t) => (update_result[t] = Err("()") /\ MetricIncs(t) = 1)
            /\ Finished(t) => SendsOf(t) = 1

C12_Witness ==
    \E t \in Tasks :
        /\ Finished(t) /\ finalize_result[t].kind = "panic"
        /\ update_result[t] = Err("()") /\ Delivered(t)
        /\ metrics[Parent(t).id] = 1 /\ PatchCalls(t) = 0

\* ------------------------------------------------------------------ C13
\* The state of every task but t is the same before and after the step.
OthersUntouched(t) ==
    \A u \in Tasks \ {t} :
        /\ pc'[u] = pc[u] /\ bundle'[u] = bundle[u] /\ trace'[u] = trace[u]
        /\ finalize_result'[u] = finalize_result[u] /\ result'[u] = result[u]
        /\ update_result'[u] = update_result[u] /\ remaining'[u] = remaining[u]

\* A task at the send is never stuck, whether the channel is open or closed.
SendNeverBlocks == \A t \in Tasks : pc[t] = "send" => ENABLED SendMessage(t)

\* The step that leaves the send ends the attempt and touches nothing but the
\* channel, and not even that when the channel is closed.
SendStepIsBestEffort ==
    \A t \in Tasks :
        (pc[t] = "send" /\ pc'[t] /= "send") =>
            /\ pc'[t] = "done"
            /\ trace'[t] = Append(trace[t], "send")
            /\ metrics' = metrics
            /\ finalizers' = finalizers /\ status' = status
            /\ result'[t] = result[t] /\ update_result'[t] = update_result[t]
            /\ closed => channel' = channel
            /\ OthersUntouched(t)

\* C13: the send of the completion event is best effort: with the channel closed
\* the attempt still ends normally, and the failed send counts no error, issues or
\* undoes no patch and leaves the other attempts alone.
C13_ClosedChannelSwallowed ==
    []SendNeverBlocks /\ [][SendStepIsBestEffort]_vars

C13_Witness ==
    \E t, u \in Tasks :
        /\ closed /\ Finished(t) /\ ~Delivered(t)
        /\ update_result[t].ok /\ MetricIncs(t) = 0 /\ metrics[Parent(t).id] = 0
        /\ RemovePatches(t) = 1
        /\ runtime_config.operator_name \notin finalizers[Parent(t).id]
        /\ u /= t /\ InFlight(u)

\* ------------------------------------------------------------------ C14
\* Every message in the channel carries an index key.
IndexKeyAlwaysPresent ==
    \A i \in 1..Len(channel) : IsSome(channel[i].index_key)

\* The message a send appends is stamped with the sending attempt's own parent
\* type, parent id and index key, and with no other running attempt's.
SendStampsOwnIdentity ==
    \A t \in Tasks :
        (pc[t] = "send" /\ pc'[t] = "done" /\ ~closed) =>
            /\ Len(channel') = Len(channel) + 1
            /\ LET msg == channel'[Len(channel')] IN
                   /\ msg.event_type.name = "UpdateOperationComplete"
                   /\ msg.event_type.result = update_result[t]
                   /\ msg.resource_type = runtime_config.parent_type
                   /\ msg.resource_id = bundle[t].request.parent.id
                   /\ msg.index_key = Some(bundle[t].parent_index_key)
                   /\ \A u \in Tasks \ {t} :
                          Started(u) =>
                              /\ msg.resource_id /= bundle[u].request.parent.id
                              /\ msg.index_key /= Some(bundle[u].parent_index_key)

\* C14: every completion event carries the parent type of the runtime config, the
\* object id of the request's parent and, always present, the index key of the
\* bundle of the attempt that sent it, on the success and the failure path alike.
C14_EventStampedWithIdentity ==
    []IndexKeyAlwaysPresent /\ [][SendStampsOwnIdentity]_vars

C14_Witness ==
    /\ Len(channel) = 2
    /\ channel[1].event_type.result.ok /\ ~channel[2].event_type.result.ok
    /\ channel[1].resource_id /= channel[2].resource_id
    /\ channel[1].index_key /= channel[2].index_key
    /\ \A i \in 1..2 : channel[i].index_key = Some(IndexKeyOf(channel[i].resource_id))

\* ------------------------------------------------------------------ C15
OperatorPatch(t) ==
    PatchRemoveFinalizer(bundle[t].request.parent, runtime_config.operator_name)

\* A successful removal takes exactly the operator's finalizer from the parent
\* of the attempt and changes nothing else in the cluster; applying the same
\* patch to the patched parent changes nothing.
RemovalStepRemovesOnlyOwn ==
    \A t \in Tasks :
        (pc[t] = "remove_patch" /\ pc'[t] = "match" /\ result'[t].ok) =>
            /\ finalizers'[Parent(t).id] =
                   finalizers[Parent(t).id] \ {runtime_config.operator_name}
            /\ \A r \in Resources \ {Parent(t).id} : finalizers'[r] = finalizers[r]
            /\ status' = status
            /\ PatchedFinalizers(finalizers'[Parent(t).id], OperatorPatch(t)) =
                   finalizers'[Parent(t).id]

\* On every parent the cluster can hold, the patch is idempotent and keeps the
\* finalizers of other controllers.
RemovalPatchIdempotent ==
    \A r \in Resources :
        LET patch == PatchRemoveFinalizer([id |-> r, finalizers |-> finalizers[r],
                                           status |-> status[r]],
                                          runtime_config.operator_name)
            once == PatchedFinalizers(finalizers[r], patch)
        IN  /\ PatchedFinalizers(once, patch) = once
            /\ once \cup {runtime_config.operator_name} =
                   finalizers[r] \cup {runtime_config.operator_name}
            /\ runtime_config.operator_name \notin once

\* C15: the finalizer-removal patch removes only the operator's own finalizer,
\* leaves every other finalizer in place, and applied a second time changes nothing.
C15_RemovalPatchOnlyOwnFinalizer ==
    []RemovalPatchIdempotent /\ [][RemovalStepRemovesOnlyOwn]_vars

C15_Witness ==
    \E t \in Tasks :
        /\ Finished(t) /\ Count(trace[t], "patch_remove_ok") = 1
        /\ Parent(t).finalizers = {runtime_config.operator_name, OtherFinalizer}
        /\ finalizers[Parent(t).id] = {OtherFinalizer}
        /\ PatchedFinalizers(finalizers[Parent(t).id], OperatorPatch(t)) = {OtherFinalizer}

\* ------------------------------------------------------------------ C16
\* In s, effect b has happened only after effect a.
Before(pa, pb) == pb > 0 => (pa > 0 /\ pa < pb)

\* C16: the effects of one attempt come in program order: the finalizer check,
\* the handler call and its return, then the patch call, on the retry path the
\* status patch before the delay, and the send of the completion event last,
\* after the patch call has returned and after the whole delay.
C16_StepsSequential ==
    \A t \in Tasks :
        LET s == trace[t]
            check == Pos(s, "check")
            handler == Pos(s, "handler")
            joined == Pos(s, "joined")
            patch_status == Pos(s, "patch_status")
            patch_status_ok == Pos(s, "patch_status_ok")
            patch_status_err == Pos(s, "patch_status_err")
            patch_remove == Pos(s, "patch_remove")
            patch_remove_ok == Pos(s, "patch_remove_ok")
            patch_remove_err == Pos(s, "patch_remove_err")
            delay_start == Pos(s, "delay_start")
            delay_end == Pos(s, "delay_end")
            send == Pos(s, "send")
        IN  Len(s) > 0 =>
            /\ s[1] = "check"
            /\ Before(check, handler)
            /\ Before(handler, joined)
            /\ Before(joined, patch_status)
            /\ Before(joined, patch_remove)
            /\ Before(joined, delay_start)
            /\ (patch_status > 0 /\ delay_start > 0) =>
                   /\ patch_status < patch_status_ok
                   /\ patch_status_ok < delay_start
            /\ Before(delay_start, Pos(s, "tick"))
            /\ Before(delay_start, delay_end)
            /\ delay_end > 0 =>
                   /\ Ticks(t) = Unwrap(Retry(t))
                   /\ \A i \in 1..Len(s) : s[i] = "tick" => i < delay_end
            /\ send > 0 =>
                   /\ send = Len(s)
                   /\ patch_status > 0 => patch_status_ok + patch_status_err > 0
                   /\ patch_remove > 0 => patch_remove_ok + patch_remove_err > 0
                   /\ delay_start > 0 => delay_end > 0
            /\ Finished(t) => send = Len(s)

C16_Witness ==
    \E t \in Tasks :
        /\ MaxDelay > 0
        /\ trace[t] = <<"check", "handler", "joined", "patch_status", "patch_status_ok",
                        "delay_start">>
                       \o [i \in 1..MaxDelay |-> "tick"] \o <<"delay_end", "send">>

\* ------------------------------------------------------------------ C17
\* The attempt is at one of its suspension points: the handler call, a patch
\* call or the retry delay.
Suspended(u) == pc[u] \in {"blocking", "join", "status_patch", "remove_patch", "delay"}

\* While an attempt is suspended, every other attempt can take its next step,
\* and a new one can be started.
NeverBlockedByOthers ==
    \A t, u \in Tasks :
        (t /= u /\ Suspended(u)) =>
            /\ InFlight(t) => ENABLED TaskStep(t)
            /\ (~InFlight(t) /\ dispatched < MaxAttempts) => ENABLED Dispatch(t)

\* What an attempt reports, given its own request, handler outcome and patch results.
ExpectedOutcome(t) ==
    IF ~HasFinalizer(t) THEN Ok(None)
    ELSE IF ~HandlerOk(t) THEN Err("()")
    ELSE IF PatchFailed(t) THEN Err("()")
    ELSE Ok(Retry(t))

\* The patches and the outcome of a finished attempt are functions of its own
\* request, handler outcome and patch results.
OutcomeFromOwnInputs ==
    \A t \in Tasks :
        Finished(t) =>
            /\ update_result[t] = ExpectedOutcome(t)
            /\ StatusPatches(t) =
                   (IF HasFinalizer(t) /\ HandlerOk(t) /\ IsSome(Retry(t)) /\ StatusDiffers(t)
                    THEN 1 ELSE 0)
            /\ RemovePatches(t) =
                   (IF HasFinalizer(t) /\ HandlerOk(t) /\ Retry(t) = None THEN 1 ELSE 0)

\* A step of one attempt leaves the state of every other attempt, and the
\* cluster and the counters of every other parent, as they were.
StepTouchesOwnStateOnly ==
    \A t \in Tasks :
        (pc'[t] /= pc[t] \/ trace'[t] /= trace[t]) =>
            /\ OthersUntouched(t)
            /\ \A r \in Resources \ {bundle'[t].request.parent.id} :
                   /\ finalizers'[r] = finalizers[r]
                   /\ status'[r] = status[r]
                   /\ metrics'[r] = metrics[r]

\* C17: attempts for different parents interleave freely: a suspended attempt never
\* blocks another, a step of one attempt touches only its own state, and what a
\* finished attempt patched and reported depends only on its own request, handler
\* outcome and patch results.
C17_AttemptsIndependent ==
    /\ []NeverBlockedByOthers
    /\ []OutcomeFromOwnInputs
    /\ [][StepTouchesOwnStateOnly]_vars

C17_Witness ==
    \E t, u \in Tasks :
        /\ t /= u
        /\ pc[u] = "delay" /\ remaining[u] > 0 /\ StatusPatches(u) = 1
        /\ Finished(t) /\ RemovePatches(t) = 1 /\ update_result[t] = Ok(None)
        /\ channel = <<Message(t)>>

\* ------------------------------------------------------------------ C18
\* How far an attempt is from its end: the statements left, with the ticks left
\* of the delay.
StepsLeft(p, ticks) ==
    CASE p = "check" -> MaxDelay + 8
      [] p = "blocking" -> MaxDelay + 7
      [] p = "join" -> MaxDelay + 6
      [] p = "interpret" -> MaxDelay + 5
      [] p = "status_patch" -> MaxDelay + 4
      [] p = "remove_patch" -> MaxDelay + 4
      [] p = "delay" -> ticks + 3
      [] p = "match" -> 2
      [] p = "send" -> 1
      [] OTHER -> 0

\* Every step of a running attempt brings it closer to its end: nothing loops.
AttemptAdvances ==
    \A t \in Tasks :
        (InFlight(t) /\ (pc'[t] /= pc[t] \/ trace'[t] /= trace[t])) =>
            StepsLeft(pc'[t], remaining'[t]) < StepsLeft(pc[t], remaining[t])

HandlerCalledAtMostOnce == \A t \in Tasks : HandlerCalls(t) <= 1

\* C18: every started attempt reaches the send of its completion event and ends,
\* given that the runtime keeps polling it and that the handler call, the patch
\* calls and the timer return; no step loops and the handler is never called again.
C18_AttemptsTerminate ==
    /\ \A t \in Tasks : InFlight(t) ~> Finished(t)
    /\ []HandlerCalledAtMostOnce
    /\ [][AttemptAdvances]_vars

C18_Witness ==
    \E t \in Tasks :
        /\ Finished(t) /\ DelayStarts(t) = 1 /\ Ticks(t) = MaxDelay
        /\ SendsOf(t) = 1 /\ HandlerCalls(t) = 1
        /\ dispatched = MaxAttempts

\* ------------------------------------------------------------------ C19
\* C19: within one attempt the handler is called at most once, exactly once when
\* the parent carries the operator's finalizer and never otherwise, and at most one
\* patch call is made in all; a patch call that failed is not made again.
C19_OneHandlerCallOnePatch ==
    \A t \in Tasks :
        LET handlerCalls == HandlerCalls(t)
            patchCalls == PatchCalls(t)
        IN  Started(t) =>
            /\ handlerCalls <= 1
            /\ ~HasFinalizer(t) => handlerCalls = 0
            /\ (Finished(t) /\ HasFinalizer(t)) => handlerCalls = 1
            /\ patchCalls <= 1
            /\ PatchFailed(t) =>
                   /\ patchCalls = 1
                   /\ pc[t] \in {"match", "send", "done"}

C19_Witness ==
    \E t, u \in Tasks :
        /\ Finished(t) /\ HasFinalizer(t) /\ HandlerCalls(t) = 1
        /\ RemovePatchFailed(t) /\ PatchCalls(t) = 1
        /\ Finished(u) /\ ~HasFinalizer(u) /\ HandlerCalls(u) = 0 /\ PatchCalls(u) = 0

\* ------------------------------------------------------------------ C20
\* C20: when the status patch call of the retry path fails, the attempt starts no
\* delay and goes straight to the failure path: its event carries Err and the
\* delay the handler asked for is neither waited nor reported.
C20_FailedStatusPatchSkipsDelay ==
    \A t \in Tasks :
        StatusPatchFailed(t) =>
            /\ HandlerOk(t) /\ IsSome(Retry(t))
            /\ DelayStarts(t) = 0 /\ Ticks(t) = 0 /\ remaining[t] = 0
            /\ pc[t] \in {"match", "send", "done"}
            /\ result[t] = Err("ClientError")
            /\ Reported(t) =>
                   /\ update_result[t] = Err("()")
                   /\ update_result[t] /= Ok(Retry(t))
            /\ (Finished(t) /\ Delivered(t)) =>
                   \E i \in 1..Len(channel) :
                       /\ channel[i].resource_id = Parent(t).id
                       /\ ~channel[i].event_type.result.ok

C20_Witness ==
    \E t \in Tasks :
        /\ Finished(t) /\ StatusPatchFailed(t) /\ Retry(t) = Some(MaxDelay)
        /\ Ticks(t) = 0 /\ DelayStarts(t) = 0
        /\ update_result[t] = Err("()") /\ Delivered(t)
        /\ metrics[Parent(t).id] = 1

====
